---------------------------- MODULE Spec2Model ----------------------------
(***************************************************************************)
(* A model of the counter-data-loader report parser                        *)
(* (dataloader/tmreport.py, class TitleMasterReport) and of the directory  *)
(* driver (jr1loader.py).                                                  *)
(*                                                                         *)
(* Python strings are sequences of one-character strings, so that          *)
(* slicing, splitting, lower-casing, quote removal and integer parsing are *)
(* computed character by character.  A worksheet is a function from        *)
(* <<row, column>> to a cell value; a coordinate outside its domain reads  *)
(* as the missing value, as in the workbook library.                       *)
(***************************************************************************)
EXTENDS Integers, Sequences, FiniteSets, TLC

VARIABLES
    _worksheet,         \* TitleMasterReport._worksheet: <<row, col>> -> cell
    _filename,          \* TitleMasterReport._filename
    _report_id,         \* TitleMasterReport._report_id (cell value)
    _reporting_period,  \* TitleMasterReport._reporting_period (cell value)
    last,               \* the last call made on the report and its outcome
    first_row,          \* the first get_row call made and its outcome
    argv,               \* driver: sys.argv
    files,              \* driver: the globbed list of workbook paths
    f_idx,              \* driver: index of the file the for loop is at
    pc,                 \* driver: position in the __main__ block
    errors_log,         \* driver: what was written to errors.log, per write
    attempted           \* driver: the files passed to JR1Report, in order,
                        \* each with what became of it

vars == << _worksheet, _filename, _report_id, _reporting_period, last,
           first_row, argv, files, f_idx, pc, errors_log, attempted >>

report_vars == << _worksheet, _filename, _report_id, _reporting_period >>
driver_vars == << argv, files, f_idx, pc, errors_log, attempted >>

----------------------------------------------------------------------------
(* Class constants, tmreport.py lines 16-22.  MAX_COLS and MAX_ROWS are    *)
(* 16384 and 1048576 in the source; the model scans a sheet of the size    *)
(* below, which keeps the "no empty cell up to the maximum" case reachable.*)

MAX_COLS == 16
MAX_ROWS == 18
HEADER_ROW == 14
DATA_ROW_START == 15
DATA_COL_START == 1

\* Number of row numbers above HEADER_ROW that get_row is called with.
MaxRowArg == 1
\* Number of files the driver's directory may hold.
MaxFiles == 3

PERIODS == << <<>>, <<"j","a","n">>, <<"f","e","b">>, <<"m","a","r">>,
              <<"a","p","r">>, <<"m","a","y">>, <<"j","u","n">>,
              <<"j","u","l">>, <<"a","u","g">>, <<"s","e","p">>,
              <<"o","c","t">>, <<"n","o","v">>, <<"d","e","c">> >>

----------------------------------------------------------------------------
(* Cell values and call outcomes.                                          *)

None == [t |-> "None", s |-> <<>>, n |-> 0]
Text(str) == [t |-> "Text", s |-> str, n |-> 0]
Number(k) == [t |-> "Number", s |-> <<>>, n |-> k]

Ok(v) == [ok |-> TRUE, val |-> v, err |-> "", at |-> ""]
\* An exception of kind e raised at the named place of the code.
Err(e, where) == [ok |-> FALSE, val |-> <<>>, err |-> e, at |-> where]

\* worksheet.cell(row, column).value / the cells iter_rows, iter_cols yield
cell(r, c) ==
    IF <<r, c>> \in DOMAIN _worksheet THEN _worksheet[<<r, c>>] ELSE None

----------------------------------------------------------------------------
(* Python built-ins the code uses, on character sequences.                 *)

UPPER == << "A","B","C","D","E","F","G","H","I","J","K","L","M",
            "N","O","P","Q","R","S","T","U","V","W","X","Y","Z" >>
LOWER == << "a","b","c","d","e","f","g","h","i","j","k","l","m",
            "n","o","p","q","r","s","t","u","v","w","x","y","z" >>
DIGITS == << "0","1","2","3","4","5","6","7","8","9" >>

IsUpper(ch) == \E i \in 1..Len(UPPER) : UPPER[i] = ch
IsLower(ch) == \E i \in 1..Len(LOWER) : LOWER[i] = ch
IsDigit(ch) == \E i \in 1..Len(DIGITS) : DIGITS[i] = ch
DigitVal(ch) == (CHOOSE i \in 1..Len(DIGITS) : DIGITS[i] = ch) - 1

\* str.lower()
LowerChar(ch) ==
    IF IsUpper(ch) THEN LOWER[CHOOSE i \in 1..Len(UPPER) : UPPER[i] = ch]
    ELSE ch
StrLower(str) == [i \in 1..Len(str) |-> LowerChar(str[i])]

\* seq[lo:hi] with Python's rules: a negative index counts from the end and
\* both ends are clamped to the sequence.
Clamp(i, len) ==
    LET j == IF i < 0 THEN i + len ELSE i
    IN  IF j < 0 THEN 0 ELSE IF j > len THEN len ELSE j
Slice(seq, lo, hi) == SubSeq(seq, Clamp(lo, Len(seq)) + 1, Clamp(hi, Len(seq)))

\* str.split(sep) for a one-character separator: always at least one piece.
RECURSIVE SplitFrom(_, _, _, _)
SplitFrom(str, sep, i, piece) ==
    IF i > Len(str) THEN << piece >>
    ELSE IF str[i] = sep THEN << piece >> \o SplitFrom(str, sep, i + 1, <<>>)
    ELSE SplitFrom(str, sep, i + 1, Append(piece, str[i]))
Split(str, sep) == SplitFrom(str, sep, 1, <<>>)

\* str.replace(old, '') for a one-character old
RECURSIVE Remove(_, _)
Remove(str, old) ==
    IF str = <<>> THEN <<>>
    ELSE IF Head(str) = old THEN Remove(Tail(str), old)
    ELSE << Head(str) >> \o Remove(Tail(str), old)

\* str(k) of an integer
RECURSIVE NatToStr(_)
NatToStr(k) ==
    IF k < 10 THEN << DIGITS[k + 1] >>
    ELSE Append(NatToStr(k \div 10), DIGITS[(k % 10) + 1])
IntToStr(k) == IF k < 0 THEN << "-" >> \o NatToStr(-k) ELSE NatToStr(k)

\* str(cell) of a cell value that is not None
PyStr(v) == IF v.t = "Text" THEN v.s ELSE IntToStr(v.n)

\* int(str): surrounding blanks are stripped, one sign is allowed, and what
\* is left must be decimal digits.  (The code passes a slice of at most two
\* characters, too short for a digit-group underscore.)
RECURSIVE LStrip(_)
LStrip(str) ==
    IF str # <<>> /\ Head(str) = " " THEN LStrip(Tail(str)) ELSE str
RECURSIVE RStrip(_)
RStrip(str) ==
    IF str # <<>> /\ str[Len(str)] = " "
    THEN RStrip(SubSeq(str, 1, Len(str) - 1)) ELSE str
RECURSIVE DigitsVal(_, _)
DigitsVal(str, acc) ==
    IF str = <<>> THEN acc
    ELSE DigitsVal(Tail(str), 10 * acc + DigitVal(Head(str)))
PyInt(str) ==
    LET body == RStrip(LStrip(str))
        signed == body # <<>> /\ Head(body) \in {"+", "-"}
        digs == IF signed THEN Tail(body) ELSE body
    IN  IF digs = <<>> \/ \E i \in 1..Len(digs) : ~IsDigit(digs[i])
        THEN Err("ValueError", "int")
        ELSE IF signed /\ Head(body) = "-" THEN Ok(0 - DigitsVal(digs, 0))
        ELSE Ok(DigitsVal(digs, 0))

----------------------------------------------------------------------------
(* collections.namedtuple, as get_row uses it (tmreport.py lines 137, 148).*)

\* keyword.kwlist
KEYWORDS ==
    { <<"F","a","l","s","e">>, <<"N","o","n","e">>, <<"T","r","u","e">>,
      <<"a","n","d">>, <<"a","s">>, <<"a","s","s","e","r","t">>,
      <<"a","s","y","n","c">>, <<"a","w","a","i","t">>,
      <<"b","r","e","a","k">>, <<"c","l","a","s","s">>,
      <<"c","o","n","t","i","n","u","e">>, <<"d","e","f">>,
      <<"d","e","l">>, <<"e","l","i","f">>, <<"e","l","s","e">>,
      <<"e","x","c","e","p","t">>, <<"f","i","n","a","l","l","y">>,
      <<"f","o","r">>, <<"f","r","o","m">>, <<"g","l","o","b","a","l">>,
      <<"i","f">>, <<"i","m","p","o","r","t">>, <<"i","n">>, <<"i","s">>,
      <<"l","a","m","b","d","a">>, <<"n","o","n","l","o","c","a","l">>,
      <<"n","o","t">>, <<"o","r">>, <<"p","a","s","s">>,
      <<"r","a","i","s","e">>, <<"r","e","t","u","r","n">>,
      <<"t","r","y">>, <<"w","h","i","l","e">>, <<"w","i","t","h">>,
      <<"y","i","e","l","d">> }

\* str.isidentifier() on the model's alphabet
IsIdentifier(name) ==
    /\ name # <<>>
    /\ \A i \in 1..Len(name) :
           IsUpper(name[i]) \/ IsLower(name[i]) \/ IsDigit(name[i])
               \/ name[i] = "_"
    /\ ~IsDigit(name[1])

\* namedtuple('ReportRow', field_names): the record type, or ValueError for
\* a name that is no identifier, is a keyword, starts with an underscore or
\* repeats an earlier name.
namedtuple(field_names) ==
    IF \E i \in 1..Len(field_names) :
           \/ ~IsIdentifier(field_names[i])
           \/ field_names[i] \in KEYWORDS
           \/ field_names[i][1] = "_"
           \/ \E j \in 1..(i - 1) : field_names[j] = field_names[i]
    THEN Err("ValueError", "namedtuple")
    ELSE Ok(field_names)

\* row_spec._make(iterable): one value per field, or TypeError
make_without_arity_check(row_spec, iterable) ==
    Ok([fields |-> row_spec,
        values |-> [i \in 1..Len(row_spec) |->
                      IF i <= Len(iterable) THEN iterable[i] ELSE <<>>]])
_make(row_spec, iterable) ==
    IF Len(iterable) # Len(row_spec)
    THEN Err("TypeError", "_make")
    ELSE Ok([fields |-> row_spec, values |-> iterable])

----------------------------------------------------------------------------
(* os.path.basename, tmreport.py line 27                                   *)

basename(path) ==
    LET parts == Split(path, "/") IN parts[Len(parts)]

----------------------------------------------------------------------------
(* TitleMasterReport: properties and methods.                              *)

\* range(a, b) as a list
Range(a, b) == [i \in 1..(b - a) |-> a + i - 1]

filename == Ok(_filename)

report_id == Ok(_report_id)

begin_date ==
    IF _reporting_period.t # "Text" THEN Err("AttributeError", "begin_date")
    ELSE LET kv_pair == Split(_reporting_period.s, ";")[1]
             halves == Split(kv_pair, "=")
         IN  IF Len(halves) < 2 THEN Err("IndexError", "begin_date")
             ELSE Ok(halves[2])

\* end_date giving an empty date where the second entry is missing
end_date_defaulting ==
    IF _reporting_period.t # "Text" THEN Err("AttributeError", "end_date")
    ELSE LET entries == Split(_reporting_period.s, ";")
         IN  IF Len(entries) < 2 THEN Ok(<<>>)
             ELSE LET halves == Split(entries[2], "=")
                  IN  IF Len(halves) < 2 THEN Err("IndexError", "end_date")
                      ELSE Ok(halves[2])
end_date ==
    IF _reporting_period.t # "Text" THEN Err("AttributeError", "end_date")
    ELSE LET entries == Split(_reporting_period.s, ";")
         IN  IF Len(entries) < 2 THEN Err("IndexError", "end_date")
             ELSE LET halves == Split(entries[2], "=")
                  IN  IF Len(halves) < 2 THEN Err("IndexError", "end_date")
                      ELSE Ok(halves[2])

title_type ==
    IF _report_id.t # "Text" THEN Err("TypeError", "title_type")
    ELSE Ok(Slice(_report_id.s, 3, 4))

TR_J1 == <<"T","R","_","J","1">>
TR_J3 == <<"T","R","_","J","3">>
TR_B1 == <<"T","R","_","B","1">>
TR_B3 == <<"T","R","_","B","3">>

\* the dict of _header_row, line 81
col == [k \in {TR_J1, TR_J3, TR_B1, TR_B3} |->
          CASE k = TR_J1 -> 11 [] k = TR_J3 -> 12
            [] k = TR_B1 -> 13 [] k = TR_B3 -> 14]

\* PERIODS[start_month:end_month+1], lines 91-93
period_cols_exclusive(start_month, end_month) ==
    Slice(PERIODS, start_month, end_month)
period_cols(start_month, end_month) ==
    Slice(PERIODS, start_month, end_month + 1)

_header_row ==
    IF _report_id.t # "Text" \/ _report_id.s \notin DOMAIN col
    THEN Err("KeyError", "_header_row")
    ELSE
    LET max_col == col[_report_id.s]
        cells == [i \in 1..max_col |-> cell(HEADER_ROW, i)]
    IN
    IF \E i \in 1..max_col : cells[i].t # "Text"
    THEN Err("AttributeError", "_header_row")
    ELSE
    LET header == [i \in 1..max_col |-> StrLower(cells[i].s)] IN
    IF ~begin_date.ok THEN begin_date
    ELSE
    LET start_month == PyInt(Slice(begin_date.val, 5, 7)) IN
    IF ~start_month.ok THEN start_month
    ELSE IF ~end_date.ok THEN end_date
    ELSE
    LET end_month == PyInt(Slice(end_date.val, 5, 7)) IN
    IF ~end_month.ok THEN end_month
    ELSE Ok(header \o period_cols(start_month.val, end_month.val))

\* the loop of data_rows, lines 104-109: row is the row iter_rows is at
RECURSIVE scan_rows_skipping_blanks(_, _)
scan_rows_skipping_blanks(row, r) ==
    IF row > MAX_ROWS THEN r
    ELSE IF cell(row, 1).t = "None" THEN scan_rows_skipping_blanks(row + 1, r)
    ELSE scan_rows_skipping_blanks(row + 1, r + 1)
RECURSIVE scan_rows(_, _)
scan_rows(row, r) ==
    IF row > MAX_ROWS THEN r
    ELSE IF cell(row, 1).t = "None" THEN r
    ELSE scan_rows(row + 1, r + 1)

data_rows ==
    Ok(Range(DATA_ROW_START, scan_rows(DATA_ROW_START, DATA_ROW_START)))

\* the loop of data_cols, lines 119-125
RECURSIVE scan_cols_skipping_blanks(_, _)
scan_cols_skipping_blanks(column, c) ==
    IF column > MAX_COLS THEN c
    ELSE IF cell(HEADER_ROW, column).t = "None"
    THEN scan_cols_skipping_blanks(column + 1, c)
    ELSE scan_cols_skipping_blanks(column + 1, c + 1)
RECURSIVE scan_cols(_, _)
scan_cols(column, c) ==
    IF column > MAX_COLS THEN c
    ELSE IF cell(HEADER_ROW, column).t = "None" THEN c
    ELSE scan_cols(column + 1, c + 1)

data_cols ==
    Ok(Range(DATA_COL_START, scan_cols(DATA_COL_START, 1)))

\* lines 143-146
normalize_keeping_quotes(v) ==
    IF v.t = "None" THEN <<>> ELSE PyStr(v)
normalize(v) ==
    IF v.t = "None" THEN <<>> ELSE Remove(PyStr(v), "\"")

get_row(n) ==
    LET h == _header_row IN
    IF ~h.ok THEN h
    ELSE
    LET row_spec == namedtuple(h.val) IN
    IF ~row_spec.ok THEN row_spec
    ELSE
    LET cols == data_cols.val IN
    IF cols = <<>> THEN Err("ValueError", "max")
    ELSE
    LET max_col == cols[Len(cols)]
        datarow == [c \in 1..max_col |-> normalize(cell(n, c))]
    IN  _make(row_spec.val, datarow)

----------------------------------------------------------------------------
(* The workbooks a report is constructed from.                             *)

UnsupportedIds ==
    { None, Text(<<"T","R">>), Text(TR_J1 \o <<"_","a","b","c">>) }

\* "Begin_Date=2020-<bm>-01;End_Date=2020-<em>-31"
Period(bm, em) ==
    Text(<<"B","e","g","i","n","_","D","a","t","e","=","2","0","2","0","-">> \o bm
         \o <<"-","0","1",";","E","n","d","_","D","a","t","e","=","2","0","2","0","-">> \o em
         \o <<"-","3","1">>)

MonthPairs ==
    { << <<"0","1">>, <<"0","2">> >>, << <<"0","3">>, <<"0","3">> >>,
      << <<"1","1">>, <<"1","2">> >>, << <<"0","1">>, <<"1","2">> >>,
      << <<"0","5">>, <<"0","2">> >>, << <<"0","0">>, <<"0","2">> >>,
      << <<"0","1">>, <<"1","3">> >>, << <<"1","x">>, <<"0","2">> >>,
      << <<"-","1">>, <<"1","2">> >> }

MalformedPeriods ==
    { None,
      Text(<<>>),
      Text(<<"B","e","g","i","n","_","D","a","t","e","=","2","0","2","0","-","0","1","-","0","1">>),
      Text(<<"B","e","g","i","n","_","D","a","t","e","2","0","2","0","-","0","1","-","0","1",";","E","n","d","_","D","a","t","e","=","2","0","2","0","-","0","2","-","3","1">>),
      Text(<<"B","e","g","i","n","_","D","a","t","e","=","2","0","2","0","-","0","1","-","0","1",";","E","n","d","_","D","a","t","e","2","0","2","0","-","0","2","-","3","1">>),
      Text(<<"B","e","g","i","n","_","D","a","t","e","=","2","0","2","0",";","E","n","d","_","D","a","t","e","=","2","0","2","0","-","0","2","-","3","1">>) }

PeriodSamples ==
    { Period(p[1], p[2]) : p \in MonthPairs }
        \cup { Text(Period(<<"0","1">>, <<"0","2">>).s
                    \o <<";","E","x","t","r","a","=","1">>) }
        \cup MalformedPeriods

\* The header row: hc columns filled, with at most one defective cell.
HeaderDefects == {"hole", "number", "duplicate", "blank_in_name"}
HeaderSamples ==
    { <<hc, "none">> : hc \in {0} \cup ((MAX_COLS - 4)..MAX_COLS) }
        \cup { <<13, d>> : d \in HeaderDefects }

HeaderCell(c, hc, defect) ==
    IF c > hc THEN None
    ELSE IF defect = "hole" /\ c = 3 THEN None
    ELSE IF defect = "number" /\ c = 2 THEN Number(7)
    ELSE IF defect = "duplicate" /\ c = 2 THEN Text(<<"J","a","n">>)
    ELSE IF defect = "blank_in_name" /\ c = 2 THEN Text(<<"P"," ","I">>)
    ELSE Text(<< "H", LOWER[c] >>)

\* The data region: which rows have a first cell, and what the cells hold.
DataSamples == {"empty", "two", "gap", "full"}

RowFilled(r, d) ==
    CASE d = "empty" -> FALSE
      [] d = "two" -> r \in {DATA_ROW_START, DATA_ROW_START + 1}
      [] d = "gap" -> r \in {DATA_ROW_START, DATA_ROW_START + 2}
      [] d = "full" -> TRUE

DataCell(r, c, d) ==
    IF c = 1
    THEN IF RowFilled(r, d) THEN Text(<< "\"", "T", DIGITS[(r % 10) + 1] >>)
         ELSE None
    ELSE IF d = "empty" \/ (d = "two" /\ ~RowFilled(r, d)) THEN None
    ELSE CASE (r + c) % 4 = 0 -> None
           [] (r + c) % 4 = 1 -> Text(<<"a","\"","b","\"">>)
           [] (r + c) % 4 = 2 -> Number(r * c)
           [] (r + c) % 4 = 3 -> Text(<<"x">>)

Coordinates ==
    { <<2, 2>>, <<10, 2>> } \cup ((HEADER_ROW..MAX_ROWS) \X (1..MAX_COLS))

Worksheet(rid, period, hdr, d) ==
    [rc \in Coordinates |->
        IF rc = <<2, 2>> THEN rid
        ELSE IF rc = <<10, 2>> THEN period
        ELSE IF rc[1] = HEADER_ROW THEN HeaderCell(rc[2], hdr[1], hdr[2])
        ELSE DataCell(rc[1], rc[2], d)]

WorkbookSamples == { <<"r","e","p","o","r","t","s","/","t","r","_","j","1",".","x","l","s","x">> }

\* The workbooks: one layout with every period and header row, the other
\* three layouts with every header row, the unsupported layouts with every
\* malformed period, and every data region.
GoodPeriod == Period(<<"0","1">>, <<"0","2">>)
SheetSamples ==
    { <<rid, period, hdr, "gap">> :
        rid \in { Text(TR_J1) }, period \in PeriodSamples,
        hdr \in HeaderSamples }
    \cup { <<rid, period, hdr, "gap">> :
        rid \in { Text(TR_J3), Text(TR_B1), Text(TR_B3) },
        period \in { GoodPeriod, Period(<<"0","3">>, <<"0","3">>) },
        hdr \in HeaderSamples }
    \cup { <<rid, period, <<13, "none">>, "gap">> :
        rid \in UnsupportedIds, period \in MalformedPeriods \cup {GoodPeriod} }
    \cup { <<Text(TR_J1), GoodPeriod, hdr, d>> :
        hdr \in { <<13, "none">>, <<0, "none">> }, d \in DataSamples }

\* the row numbers get_row is called with: the header row and the first
\* data rows
RowArgs == HEADER_ROW..(HEADER_ROW + MaxRowArg)

----------------------------------------------------------------------------
(* The report state machine: __init__ and then any sequence of calls.      *)

\* first_row: the first get_row call, and how many calls (counted to 2) were
\* made with its row number
NoCall == [called |-> FALSE, n |-> 0, out |-> Ok(<<>>), calls |-> 0]

\* TitleMasterReport.__init__, lines 24-29, on one of the given workbooks
Construct(sheets) ==
    /\ \E sheet \in sheets, workbook \in WorkbookSamples :
          /\ _worksheet = Worksheet(sheet[1], sheet[2], sheet[3], sheet[4])
          /\ _filename = basename(workbook)
          /\ _report_id = _worksheet[<<2, 2>>]
          /\ _reporting_period = _worksheet[<<10, 2>>]
    /\ last = [op |-> "__init__", arg |-> 0, out |-> Ok(<<>>)]
    /\ first_row = NoCall
    /\ argv = <<>>
    /\ files = <<>>
    /\ f_idx = 0
    /\ pc = "idle"
    /\ errors_log = <<>>
    /\ attempted = <<>>

Init == Construct(SheetSamples)

Returned(name, arg, out) == last' = [op |-> name, arg |-> arg, out |-> out]

Filename ==
    /\ Returned("filename", 0, filename)
    /\ UNCHANGED << report_vars, first_row, driver_vars >>

ReportId ==
    /\ Returned("report_id", 0, report_id)
    /\ UNCHANGED << report_vars, first_row, driver_vars >>

BeginDate ==
    /\ Returned("begin_date", 0, begin_date)
    /\ UNCHANGED << report_vars, first_row, driver_vars >>

EndDate ==
    /\ Returned("end_date", 0, end_date)
    /\ UNCHANGED << report_vars, first_row, driver_vars >>

TitleType ==
    /\ Returned("title_type", 0, title_type)
    /\ UNCHANGED << report_vars, first_row, driver_vars >>

HeaderRow ==
    /\ Returned("_header_row", 0, _header_row)
    /\ UNCHANGED << report_vars, first_row, driver_vars >>

DataRows ==
    /\ Returned("data_rows", 0, data_rows)
    /\ UNCHANGED << report_vars, first_row, driver_vars >>

DataCols ==
    /\ Returned("data_cols", 0, data_cols)
    /\ UNCHANGED << report_vars, first_row, driver_vars >>

\* get_row storing each normalized value back into the cell it read
GetRowWritingBack(n) ==
    /\ Returned("get_row", n, get_row(n))
    /\ first_row' =
           IF ~first_row.called
           THEN [called |-> TRUE, n |-> n, out |-> get_row(n), calls |-> 1]
           ELSE IF first_row.n = n
           THEN [first_row EXCEPT !.calls = 2]
           ELSE first_row
    /\ _worksheet' =
           [rc \in DOMAIN _worksheet |->
               IF rc[1] = n /\ rc[2] <= Len(data_cols.val)
               THEN Text(normalize(_worksheet[rc]))
               ELSE _worksheet[rc]]
    /\ UNCHANGED << _filename, _report_id, _reporting_period, driver_vars >>
GetRow(n) ==
    /\ Returned("get_row", n, get_row(n))
    /\ first_row' =
           IF ~first_row.called
           THEN [called |-> TRUE, n |-> n, out |-> get_row(n), calls |-> 1]
           ELSE IF first_row.n = n
           THEN [first_row EXCEPT !.calls = 2]
           ELSE first_row
    /\ UNCHANGED << report_vars, driver_vars >>

Next ==
    \/ Filename
    \/ ReportId
    \/ BeginDate
    \/ EndDate
    \/ TitleType
    \/ HeaderRow
    \/ DataRows
    \/ DataCols
    \/ \E n \in RowArgs : GetRow(n)

Spec == Init /\ [][Next]_vars

----------------------------------------------------------------------------
(* Header derivation alone, over every pair of month numbers 00..13 in the *)
(* two dates, every supported layout and three header rows.                *)

TwoDigits(m) == << DIGITS[(m \div 10) + 1], DIGITS[(m % 10) + 1] >>

HeaderSheetSamples ==
    { << Text(rid), Period(TwoDigits(bm), TwoDigits(em)), hdr, "two" >> :
        rid \in { TR_J1, TR_J3, TR_B1, TR_B3 },
        bm \in 0..13, em \in 0..13,
        hdr \in { << MAX_COLS, "none" >>, << 12, "none" >>,
                  << 13, "number" >> } }

HeaderInit == Construct(HeaderSheetSamples)

HeaderNext ==
    \/ BeginDate
    \/ EndDate
    \/ HeaderRow

HeaderSpec == HeaderInit /\ [][HeaderNext]_vars

----------------------------------------------------------------------------
(* jr1loader.py: the __main__ block.                                       *)

\* the names a report directory may hold
XlsxName(i) == << LOWER[i] >> \o <<".","x","l","s","x">>
DirEntries == { XlsxName(i) : i \in 1..MaxFiles } \cup { <<"n","o","t","e","s",".","t","x","t">> }

\* fnmatch of a name against '*.xlsx'
MatchesXlsx(name) ==
    /\ Len(name) >= 5
    /\ SubSeq(name, Len(name) - 4, Len(name)) = <<".","x","l","s","x">>
    /\ name[1] # "."

\* glob.glob(jr1dir + '/*.xlsx') on a directory listing: the matching paths,
\* in any order
glob(jr1dir, listing) ==
    LET matched == { name \in listing : MatchesXlsx(name) }
    IN  { order \in [1..Cardinality(matched) -> matched] :
            \A i, j \in 1..Cardinality(matched) :
                i # j => order[i] # order[j] }
Paths(jr1dir, order) ==
    [i \in 1..Len(order) |-> jr1dir \o << "/" >> \o order[i]]

\* what JR1Report(f) or load_platform may raise: str() of the exception's
\* type and of its value
ExcSamples ==
    { [type |-> <<"K","e","y","E","r","r","o","r">>, value |-> <<"'","x","'">>],
      [type |-> <<"I","O","E","r","r","o","r">>, value |-> <<>>] }

SEP == << " ", "|", " " >>

\* log_error(err_msg), lines 10-13: the file content after the append
log_error(err_msg) == Append(errors_log, err_msg \o << "\n" >>)

ProgSamples == { << <<"j","r","1","l","o","a","d","e","r",".","p","y">> >>,
                 << <<"j","r","1","l","o","a","d","e","r",".","p","y">>, <<"r">> >> }
OldLogSamples == { <<>>, << <<"o","l","d"," ","|"," ","e"," ","|"," ","d","\n">> >> }

DriverInit ==
    /\ argv \in ProgSamples
    /\ errors_log \in OldLogSamples
    /\ files = <<>>
    /\ f_idx = 0
    /\ pc = "start"
    /\ attempted = <<>>
    /\ _worksheet = <<>>
    /\ _filename = <<>>
    /\ _report_id = None
    /\ _reporting_period = None
    /\ last = [op |-> "__init__", arg |-> 0, out |-> Ok(<<>>)]
    /\ first_row = NoCall

\* lines 17-18
Usage ==
    /\ pc = "start"
    /\ Len(argv) = 1
    /\ pc' = "done"
    /\ UNCHANGED << argv, files, f_idx, errors_log, attempted,
                    report_vars, last, first_row >>

\* lines 20-21
Glob ==
    /\ pc = "start"
    /\ Len(argv) # 1
    /\ \E listing \in SUBSET DirEntries :
          \E order \in glob(argv[2], listing) :
              files' = Paths(argv[2], order)
    /\ f_idx' = 1
    /\ pc' = "loop"
    /\ UNCHANGED << argv, errors_log, attempted, report_vars, last, first_row >>

\* lines 22-26, nothing raised
FileLoads ==
    /\ pc = "loop"
    /\ f_idx <= Len(files)
    /\ attempted' = Append(attempted,
           [f |-> files[f_idx], failed |-> FALSE, type |-> <<>>, value |-> <<>>])
    /\ f_idx' = f_idx + 1
    /\ UNCHANGED << argv, files, pc, errors_log, report_vars, last, first_row >>

\* lines 22-25 with the exception left to propagate
FileFailsUncaught ==
    /\ pc = "loop"
    /\ f_idx <= Len(files)
    /\ \E exc \in ExcSamples :
          attempted' = Append(attempted,
              [f |-> files[f_idx], failed |-> TRUE,
               type |-> exc.type, value |-> exc.value])
    /\ pc' = "done"
    /\ UNCHANGED << argv, files, f_idx, errors_log, report_vars, last,
                    first_row >>
\* lines 22-28, JR1Report or load_platform raised
FileFails ==
    /\ pc = "loop"
    /\ f_idx <= Len(files)
    /\ \E exc \in ExcSamples :
          /\ attempted' = Append(attempted,
                 [f |-> files[f_idx], failed |-> TRUE,
                  type |-> exc.type, value |-> exc.value])
          /\ errors_log' =
                 log_error(files[f_idx] \o SEP \o exc.type \o SEP \o exc.value)
    /\ f_idx' = f_idx + 1
    /\ UNCHANGED << argv, files, pc, report_vars, last, first_row >>

\* line 22, the list is exhausted
LoopEnds ==
    /\ pc = "loop"
    /\ f_idx > Len(files)
    /\ pc' = "done"
    /\ UNCHANGED << argv, files, f_idx, errors_log, attempted,
                    report_vars, last, first_row >>

DriverNext ==
    \/ Usage
    \/ Glob
    \/ FileLoads
    \/ FileFails
    \/ LoopEnds

\* The block runs to its end: every step of it terminates.
DriverSpec == DriverInit /\ [][DriverNext]_vars /\ WF_vars(DriverNext)

----------------------------------------------------------------------------
(* Properties of the report parser.                                        *)

Supported == _report_id.t = "Text" /\ _report_id.s \in {TR_J1, TR_J3, TR_B1, TR_B3}

\* the layout's identifying-column count
IdCount ==
    CASE _report_id.s = TR_J1 -> 11 [] _report_id.s = TR_J3 -> 12
      [] _report_id.s = TR_B1 -> 13 [] _report_id.s = TR_B3 -> 14

\* the month number written at positions [5:7] of a date that was read
MonthOf(date) == PyInt(Slice(date.val, 5, 7))
BeginMonth == MonthOf(begin_date).val
EndMonth == MonthOf(end_date).val
MonthsParse ==
    /\ begin_date.ok /\ MonthOf(begin_date).ok
    /\ end_date.ok /\ MonthOf(end_date).ok
MonthsInOrder ==
    MonthsParse /\ 1 <= BeginMonth /\ BeginMonth <= EndMonth /\ EndMonth <= 12

NoUpper(str) == \A i \in 1..Len(str) : ~IsUpper(str[i])

\* C1: for a supported layout code and months 1 <= begin <= end <= 12, the
\* header _header_row produces is the lower-cased cells of row 14, columns
\* 1..N in column order, followed by the month names begin..end in calendar
\* order, so its length is N + (end - begin + 1); it is produced whenever
\* those N cells hold text.
C1_HeaderIsIdColumnsThenMonths ==
    (last.op = "_header_row" /\ Supported /\ MonthsInOrder) =>
        LET N == IdCount
            header == last.out.val
        IN  /\ last.out.ok <=> \A i \in 1..N : cell(HEADER_ROW, i).t = "Text"
            /\ last.out.ok =>
                /\ Len(header) = N + (EndMonth - BeginMonth + 1)
                /\ \A i \in 1..N :
                      /\ header[i] = StrLower(cell(HEADER_ROW, i).s)
                      /\ NoUpper(header[i])
                      /\ Len(header[i]) = Len(cell(HEADER_ROW, i).s)
                /\ \A m \in BeginMonth..EndMonth :
                      header[N + (m - BeginMonth) + 1] = PERIODS[m + 1]

C1_Witness ==
    /\ last.op = "_header_row" /\ Supported /\ MonthsInOrder
    /\ BeginMonth < EndMonth
    /\ last.out.ok
    /\ \E i \in 1..IdCount : ~NoUpper(cell(HEADER_ROW, i).s)

\* the first row at or after DATA_ROW_START whose first cell is empty, or
\* MAX_ROWS + 1
FirstEmptyRow ==
    IF \E r \in DATA_ROW_START..MAX_ROWS : cell(r, 1) = None
    THEN CHOOSE r \in DATA_ROW_START..MAX_ROWS :
            /\ cell(r, 1) = None
            /\ \A q \in DATA_ROW_START..(r - 1) : cell(q, 1) # None
    ELSE MAX_ROWS + 1

\* C2: data_rows returns exactly the ascending contiguous row numbers
\* 15..k-1, k being the first row >= 15 with an empty first cell (or the
\* maximum row + 1): the empty list when row 15 is empty, and never a row at
\* or after the first empty one even if later rows are populated.
C2_DataRowsStopAtFirstEmptyRow ==
    last.op = "data_rows" =>
        /\ last.out.ok
        /\ Len(last.out.val) = FirstEmptyRow - DATA_ROW_START
        /\ \A i \in 1..Len(last.out.val) :
              last.out.val[i] = DATA_ROW_START + i - 1
        /\ \A i \in 1..Len(last.out.val) : last.out.val[i] < FirstEmptyRow

C2_Witness ==
    /\ last.op = "data_rows"
    /\ last.out.val = << DATA_ROW_START >>
    /\ cell(DATA_ROW_START + 2, 1) # None

\* the first column whose header cell is empty, or MAX_COLS + 1
FirstEmptyCol ==
    IF \E c \in 1..MAX_COLS : cell(HEADER_ROW, c) = None
    THEN CHOOSE c \in 1..MAX_COLS :
            /\ cell(HEADER_ROW, c) = None
            /\ \A q \in 1..(c - 1) : cell(HEADER_ROW, q) # None
    ELSE MAX_COLS + 1

\* C3: data_cols returns exactly the ascending contiguous column numbers
\* 1..c-1, c being the first column whose row-14 cell is empty (or the
\* maximum column + 1): the empty list when cell (14, 1) is empty.
C3_DataColsStopAtFirstEmptyHeader ==
    last.op = "data_cols" =>
        /\ last.out.ok
        /\ Len(last.out.val) = FirstEmptyCol - 1
        /\ \A i \in 1..Len(last.out.val) : last.out.val[i] = i

C3_Witness ==
    /\ last.op = "data_cols"
    /\ last.out.val = << 1, 2 >>
    /\ cell(HEADER_ROW, 4) # None

NotQuote(ch) == ch # "\""
\* the value get_row is to hold for a cell
Normalized(v) == IF v = None THEN <<>> ELSE SelectSeq(PyStr(v), NotQuote)

\* the header has as many names as there are probed columns
ArityMatches ==
    _header_row.ok /\ Len(data_cols.val) = Len(_header_row.val)

\* C4: when the number of probed data columns equals the header length, the
\* record get_row(n) returns has, as its i-th field, the i-th header name
\* holding the normalized value of cell (n, i), for every probed column i:
\* the empty string for a missing cell, otherwise the cell's string form
\* with every double quote removed; nothing is shifted, dropped or
\* reordered.  The record is returned whenever the header names are
\* accepted as field names.
C4_RowFieldsAreNormalizedCells ==
    last.op = "get_row" =>
        LET n == last.arg
            rec == last.out.val
            width == Len(data_cols.val)
        IN  /\ last.out.ok =>
                /\ ArityMatches
                /\ rec.fields = _header_row.val
                /\ Len(rec.values) = width
                /\ \A i \in 1..width : rec.values[i] = Normalized(cell(n, i))
            /\ (ArityMatches /\ namedtuple(_header_row.val).ok) => last.out.ok

C4_Witness ==
    /\ last.op = "get_row" /\ last.arg >= DATA_ROW_START
    /\ ArityMatches
    /\ last.out.ok
    /\ \E i \in 1..Len(data_cols.val) : cell(last.arg, i) = None
    /\ \E i \in 1..Len(data_cols.val) :
          /\ cell(last.arg, i).t = "Text"
          /\ \E k \in 1..Len(cell(last.arg, i).s) : cell(last.arg, i).s[k] = "\""

\* C5: get_row(n) fails whenever the number of values it extracts (the
\* probed column count) differs from the header length, with more columns
\* than names or with fewer, and then returns no record at all; the failure
\* is _make's arity error once the record type was built.
C5_ArityMismatchFails ==
    (last.op = "get_row" /\ ~ArityMatches) =>
        /\ ~last.out.ok
        /\ last.out.val = <<>>
        /\ (_header_row.ok /\ namedtuple(_header_row.val).ok
              /\ data_cols.val # <<>>)
           => (last.out.err = "TypeError" /\ last.out.at = "_make")

C5_Witness ==
    /\ last.op = "get_row"
    /\ _header_row.ok
    /\ Len(data_cols.val) > Len(_header_row.val)
    /\ last.out.err = "TypeError"

\* C7: get_row is idempotent and free of side effects: a later get_row(n)
\* yields the outcome the first get_row(n) yielded, whatever calls were made
\* in between, and no call changes the sheet's cells or the report's
\* filename, layout code and reporting-period string.
C7_GetRowIdempotentNoMutation ==
    [][ /\ _worksheet' = _worksheet
        /\ _filename' = _filename
        /\ _report_id' = _report_id
        /\ _reporting_period' = _reporting_period
        /\ (first_row.called /\ last'.op = "get_row"
              /\ last'.arg = first_row.n /\ first_row'.calls = 2)
           => last'.out = first_row.out ]_vars

C7_Witness ==
    /\ first_row.calls = 2
    /\ last.op = "get_row" /\ last.arg = first_row.n
    /\ last.out.ok

\* C8: title_type is the character at 0-indexed position 3 of a layout code
\* of at least 4 characters, and fails for a shorter layout code, never
\* returning an empty value for it.
C8_TitleTypeFailsOnShortCode ==
    (last.op = "title_type" /\ _report_id.t = "Text") =>
        IF Len(_report_id.s) >= 4
        THEN last.out.ok /\ last.out.val = << _report_id.s[4] >>
        ELSE ~last.out.ok

\* a month slice that does not parse as an integer in 1..12
BadMonth(date) == ~MonthOf(date).ok \/ MonthOf(date).val \notin 1..12

\* C9: header derivation fails whenever the month digits at [5:7] of the
\* begin or end date do not parse as an integer in 1..12; it returns no
\* header with the month table's index-0 placeholder or a truncated range.
C9_InvalidMonthFails ==
    (last.op = "_header_row" /\ begin_date.ok /\ end_date.ok
        /\ (BadMonth(begin_date) \/ BadMonth(end_date)))
    => ~last.out.ok

\* a reporting-period string with fewer than 2 entries, or whose first or
\* second entry has no '='
HasEquals(str) == \E i \in 1..Len(str) : str[i] = "="
MalformedPeriod ==
    /\ _reporting_period.t = "Text"
    /\ LET entries == Split(_reporting_period.s, ";")
       IN  \/ Len(entries) < 2
           \/ ~HasEquals(entries[1])
           \/ ~HasEquals(entries[2])

PeriodEntries == Split(_reporting_period.s, ";")

\* C10, as amended: for a reporting-period string, reading begin_date fails
\* exactly when entry [0] has no '=' (a missing or malformed second entry
\* does not make it fail); reading end_date fails exactly when there are
\* fewer than 2 entries or entry [1] has no '='; header derivation and
\* get_row fail, returning nothing, whenever either is the case; a call that
\* fails leaves the sheet and the report's fields unchanged; for a
\* well-formed string the two dates are the value halves of entries [0] and
\* [1].
C10_PeriodFailuresPerDate ==
    /\ [](_reporting_period.t = "Text" =>
          /\ last.op = "begin_date" =>
                /\ ~last.out.ok <=> ~HasEquals(PeriodEntries[1])
                /\ last.out.ok =>
                      last.out.val = Split(PeriodEntries[1], "=")[2]
          /\ last.op = "end_date" =>
                /\ ~last.out.ok <=>
                      (Len(PeriodEntries) < 2 \/ ~HasEquals(PeriodEntries[2]))
                /\ last.out.ok =>
                      last.out.val = Split(PeriodEntries[2], "=")[2]
          /\ (MalformedPeriod /\ last.op \in {"_header_row", "get_row"}) =>
                (~last.out.ok /\ last.out.val = <<>>))
    /\ [][ ~last'.out.ok => UNCHANGED report_vars ]_vars

C10_Witness ==
    /\ last.op = "end_date"
    /\ _reporting_period.t = "Text"
    /\ Len(PeriodEntries) < 2
    /\ ~last.out.ok
    /\ begin_date.ok

\* C10, as claimed: reading begin_date or end_date, and so header derivation
\* and get_row, fails whenever the reporting-period string has fewer than 2
\* entries or one of its first two entries has no '='; for a well-formed
\* string the two dates are the value halves of entries [0] and [1].
C10_MalformedPeriodFails ==
    /\ (MalformedPeriod
          /\ last.op \in {"begin_date", "end_date", "_header_row", "get_row"})
       => ~last.out.ok
    /\ (last.op = "begin_date" /\ _reporting_period.t = "Text"
          /\ ~MalformedPeriod)
       => last.out.val
            = Split(Split(_reporting_period.s, ";")[1], "=")[2]
    /\ (last.op = "end_date" /\ _reporting_period.t = "Text"
          /\ ~MalformedPeriod)
       => last.out.val
            = Split(Split(_reporting_period.s, ";")[2], "=")[2]

----------------------------------------------------------------------------
(* Properties of the driver.                                               *)

AttemptedFiles == [i \in 1..Len(attempted) |-> attempted[i].f]

\* one step of the loop: the next file of the list is attempted, and the log
\* grows by that file's line if and only if it failed
AttemptStep ==
    LET e == attempted'[Len(attempted')] IN
    /\ attempted' = Append(attempted, e)
    /\ e.f = files[Len(attempted) + 1]
    /\ IF e.failed
       THEN errors_log' = Append(errors_log,
                e.f \o << " ", "|", " " >> \o e.type
                    \o << " ", "|", " " >> \o e.value \o << "\n" >>)
       ELSE errors_log' = errors_log

\* C6: one file's failure never aborts the others: every file of the list
\* is eventually attempted exactly once, in list order, and each failing
\* file appends exactly one line "<filename> | <error-kind> |
\* <error-detail>" to the error log, earlier lines being left as they were.
C6_EveryFileAttemptedFailuresLogged ==
    /\ [][ (attempted' = attempted /\ errors_log' = errors_log)
              \/ AttemptStep ]_vars
    /\ [](pc = "loop" => AttemptedFiles = SubSeq(files, 1, f_idx - 1))
    /\ [](pc = "done" /\ Len(argv) # 1 => AttemptedFiles = files)
    /\ <>(pc = "done")

C6_Witness ==
    /\ pc = "done"
    /\ Len(files) >= 3
    /\ Len(errors_log) >= 3
    /\ attempted[1].failed /\ ~attempted[2].failed /\ attempted[3].failed

=============================================================================
